---- MODULE Spec2Model ----
(***************************************************************************)
(* Runner (adalflow/core/runner.py): the bounded multi-step loop that asks *)
(* the planner for a Function, executes it through the tool manager,       *)
(* appends a StepOutput to self.step_history and stops on "finish".        *)
(*                                                                         *)
(* Python values are records [t |-> type name, v |-> printed form]; for a  *)
(* str the printed form is the content of the string itself.               *)
(***************************************************************************)
EXTENDS Integers, Sequences, FiniteSets, TLC

\* ------------------------------------------------------------------ bounds
MaxSteps == 2      \* largest agent.max_steps explored
MaxInv == 2      \* number of top-level invocations explored on one Runner

\* ------------------------------------------------------------ Python values
NoneVal == [t |-> "NoneType", v |-> "None"]
IntVal(s) == [t |-> "int", v |-> s]
BoolVal(s) == [t |-> "bool", v |-> s]
StrVal(s) == [t |-> "str", v |-> s]
DictVal(s) == [t |-> "dict", v |-> s]
ListVal(s) == [t |-> "list", v |-> s]
InstanceVal(cls, s) == [t |-> cls, v |-> s]

XYText == "{'x': 1, 'y': 2}"

\* observations a tool may hand back (FunctionOutput.output)
Values ==
    { NoneVal, IntVal("0"), IntVal("4"), BoolVal("True"), BoolVal("False"),
      StrVal(""), StrVal("4"), StrVal("hello"), StrVal("{}"), StrVal(XYText),
      DictVal("{}"), DictVal(XYText), ListVal("[]") }

\* agent.answer_data_type: None, two pydantic models, one adalflow DataClass,
\* or a builtin type.  PydXY has required fields x, y; PydOpt has defaults only.
NoType == "None"
PydanticTypes == {"PydXY", "PydOpt"}
AdalflowTypes == {"AdalXY"}
BuiltinTypes == {"int", "str", "dict", "bool", "list"}
Types == {NoType} \cup PydanticTypes \cup AdalflowTypes \cup BuiltinTypes

_is_pydantic_dataclass(cls) == cls \in PydanticTypes

_is_adalflow_dataclass(cls) == cls \in AdalflowTypes

\* Python truth value of a value (bool(x))
Truthy(x) ==
    CASE x.t = "NoneType" -> FALSE
      [] x.t = "int" -> x.v # "0"
      [] x.t = "bool" -> x.v = "True"
      [] x.t = "str" -> x.v # ""
      [] x.t = "dict" -> x.v # "{}"
      [] x.t = "list" -> x.v # "[]"
      [] OTHER -> TRUE

\* variant: the isinstance test of line 156 left out
IsInstance_Mut(x, cls) == TRUE

\* isinstance(x, cls) for a builtin cls; bool is a subclass of int
IsInstance(x, cls) == x.t = cls \/ (x.t = "bool" /\ cls = "int")

\* str(data): the printed form, as a str; the original type is lost
Str(x) == StrVal(x.v)

\* ast.literal_eval(s): the literal the text denotes, or an exception
LiteralEval(s) ==
    CASE s.v = "None" -> [ok |-> TRUE, val |-> NoneVal]
      [] s.v = "0" -> [ok |-> TRUE, val |-> IntVal("0")]
      [] s.v = "4" -> [ok |-> TRUE, val |-> IntVal("4")]
      [] s.v = "True" -> [ok |-> TRUE, val |-> BoolVal("True")]
      [] s.v = "False" -> [ok |-> TRUE, val |-> BoolVal("False")]
      [] s.v = "{}" -> [ok |-> TRUE, val |-> DictVal("{}")]
      [] s.v = XYText -> [ok |-> TRUE, val |-> DictVal(XYText)]
      [] s.v = "[]" -> [ok |-> TRUE, val |-> ListVal("[]")]
      [] OTHER -> [ok |-> FALSE, val |-> NoneVal]

\* self.answer_data_type(**dict_obj) for a pydantic model
PydanticConstruct(cls, obj) ==
    IF obj.t # "dict" THEN [ok |-> FALSE, val |-> NoneVal]
    ELSE IF cls = "PydOpt" THEN [ok |-> TRUE, val |-> InstanceVal(cls, "PydOpt()")]
    ELSE IF obj.v = XYText THEN [ok |-> TRUE, val |-> InstanceVal(cls, "x=1 y=2")]
    ELSE [ok |-> FALSE, val |-> NoneVal]

\* self.answer_data_type.from_dict(dict_obj) for an adalflow DataClass
FromDict(cls, obj) ==
    IF obj.t = "dict" /\ obj.v = XYText
    THEN [ok |-> TRUE, val |-> InstanceVal(cls, "AdalXY(x=1, y=2)")]
    ELSE [ok |-> FALSE, val |-> NoneVal]

Raised(msg) == [ok |-> FALSE, val |-> NoneVal, err |-> msg]
Returned(x) == [ok |-> TRUE, val |-> x, err |-> ""]

\* variant: the check of line 169 left out
FalsyCheck_Mut(model_output) == Returned(model_output)

\* line 169: a falsy model_output is a failure
FalsyCheck(model_output) ==
    IF ~Truthy(model_output)
    THEN Raised("Error processing output: Failed to parse output")
    ELSE Returned(model_output)

\* variant: the truthiness check applied on the untyped path as well
ProcessData_Mut(cls, data) ==
    IF cls = NoType THEN FalsyCheck(data)
    ELSE IF _is_pydantic_dataclass(cls) THEN
        LET dict_obj == LiteralEval(Str(data)) IN
        IF ~dict_obj.ok THEN Raised("Error processing output: malformed literal")
        ELSE LET m == PydanticConstruct(cls, dict_obj.val) IN
             IF ~m.ok THEN Raised("Error processing output: invalid model data")
             ELSE FalsyCheck(m.val)
    ELSE IF _is_adalflow_dataclass(cls) THEN
        LET dict_obj == LiteralEval(Str(data)) IN
        IF ~dict_obj.ok THEN Raised("Error processing output: malformed literal")
        ELSE LET m == FromDict(cls, dict_obj.val) IN
             IF ~m.ok THEN Raised("Error processing output: invalid dataclass data")
             ELSE FalsyCheck(m.val)
    ELSE
        IF ~IsInstance(data, cls)
        THEN Raised("Error processing output: Error processing output: Expected data of type")
        ELSE FalsyCheck(data)

\* Runner._process_data(data) with self.answer_data_type = cls
ProcessData(cls, data) ==
    IF cls = NoType THEN Returned(data)
    ELSE IF _is_pydantic_dataclass(cls) THEN
        LET dict_obj == LiteralEval(Str(data)) IN
        IF ~dict_obj.ok THEN Raised("Error processing output: malformed literal")
        ELSE LET m == PydanticConstruct(cls, dict_obj.val) IN
             IF ~m.ok THEN Raised("Error processing output: invalid model data")
             ELSE FalsyCheck(m.val)
    ELSE IF _is_adalflow_dataclass(cls) THEN
        LET dict_obj == LiteralEval(Str(data)) IN
        IF ~dict_obj.ok THEN Raised("Error processing output: malformed literal")
        ELSE LET m == FromDict(cls, dict_obj.val) IN
             IF ~m.ok THEN Raised("Error processing output: invalid dataclass data")
             ELSE FalsyCheck(m.val)
    ELSE
        IF ~IsInstance(data, cls)
        THEN Raised("Error processing output: Error processing output: Expected data of type")
        ELSE FalsyCheck(data)


\* --------------------------------------------------- planner and tool layer
ActionNames == {"compute", "finish"}

\* what agent.planner.call / acall may do: raise, return something that is not
\* a GeneratorOutput, or return a GeneratorOutput whose data is a Function
\* (given by its name) or is not one
PlannerRaises == [kind |-> "raise", data |-> "-"]
NotEnvelope == [kind |-> "object", data |-> "-"]
Envelope(d) == [kind |-> "GeneratorOutput", data |-> d]
PlannerOutcomes ==
    {PlannerRaises, NotEnvelope, Envelope("<None>")} \cup {Envelope(n) : n \in ActionNames}
NoOutput == [kind |-> "unset", data |-> "-"]

\* what tool_manager.call may do: raise, or return a FunctionOutput whose
\* output is one of Observations
ToolRaises == [t |-> "<raise>", v |-> "-"]
NotCalled == [t |-> "<not called>", v |-> "-"]
Observations == {NoneVal, StrVal(XYText)}
ToolOutcomes == {ToolRaises} \cup Observations

\* Runner._get_planner_function(output)
_get_planner_function(o) ==
    IF o.kind # "GeneratorOutput" THEN Raised("Expected GeneratorOutput")
    ELSE IF o.data \notin ActionNames
         THEN Raised("Expected Function in the data field of the GeneratorOutput")
         ELSE Returned(o.data)

\* variant: the termination marker compared with the wrong spelling
_check_last_step_Mut(name) == name = "Finish"

\* Runner._check_last_step(step)
_check_last_step(name) == name = "finish"

\* variant: steps numbered from 1
StepOutput_Mut(k, fn, obs) == [step |-> k + 1, action |-> fn, observation |-> obs]

\* StepOutput(step=step_count, action=function, function=function, observation=...)
StepOutput(k, fn, obs) == [step |-> k, action |-> fn, observation |-> obs]

\* f"Error in step {step_count}: {str(e)}"
error_msg(k, e) == "Error in step " \o ToString(k) \o ": " \o e

\* ------------------------------------------------------------------- state
Inv == 1..MaxInv
ListIds == 0..MaxInv    \* list 0 is created by __init__, list i by invocation i

VARIABLES
    max_steps,          \* self.max_steps
    answer_data_type,   \* self.answer_data_type
    step_history,       \* self.step_history: the list object it refers to
    lists,              \* contents of every list object
    mode,               \* per invocation: "call" or "acall" once started
    pc,                 \* per invocation: position in call / acall
    step_count,         \* local step_count
    last_output,        \* local last_output
    prompt_kwargs,      \* list object under prompt_kwargs["step_history"]
    output,             \* local output (planner result)
    function,           \* local function (its name)
    function_results,   \* local function_results.output
    exc,                \* str(e) of the exception in flight
    ret,                \* what the invocation returned or raised
    trace,              \* per invocation: what planner and tools did, per step
    pd_data,            \* argument of a direct _process_data call
    pd_result,          \* its outcome
    stream_parser,      \* whether self.config.stream_parser is set
    stream_pc,          \* per invocation: position in stream, "none" outside it
    pending,            \* per invocation: chunks the generator has yet to yield
    chunks              \* per invocation: chunks the consumer has received

vars == <<max_steps, answer_data_type, step_history, lists, mode, pc, step_count,
          last_output, prompt_kwargs, output, function, function_results, exc,
          ret, trace, pd_data, pd_result, stream_parser, stream_pc, pending, chunks>>

config == <<max_steps, answer_data_type>>
direct == <<pd_data, pd_result>>
streaming == <<stream_parser, stream_pc, pending, chunks>>

NoRet == [kind |-> "none", hist |-> -1, second |-> NoneVal]

\* Runner.__init__
InitRunner ==
    /\ max_steps \in 1..MaxSteps
    /\ answer_data_type \in Types
    /\ step_history = 0
    /\ lists = [l \in ListIds |-> <<>>]
    /\ mode = [i \in Inv |-> "none"]
    /\ pc = [i \in Inv |-> "idle"]
    /\ step_count = [i \in Inv |-> 0]
    /\ last_output = [i \in Inv |-> NoneVal]
    /\ prompt_kwargs = [i \in Inv |-> -1]
    /\ output = [i \in Inv |-> NoOutput]
    /\ function = [i \in Inv |-> "unset"]
    /\ function_results = [i \in Inv |-> NotCalled]
    /\ exc = [i \in Inv |-> ""]
    /\ ret = [i \in Inv |-> NoRet]
    /\ trace = [i \in Inv |-> <<>>]
    /\ pd_data = NotCalled
    /\ pd_result = Raised("not called")

\* no stream generator exists yet
InitStreams ==
    /\ stream_pc = [i \in Inv |-> "none"]
    /\ pending = [i \in Inv |-> <<>>]
    /\ chunks = [i \in Inv |-> <<>>]

Init == InitRunner /\ InitStreams /\ stream_parser = FALSE

InitStream == InitRunner /\ InitStreams /\ stream_parser \in BOOLEAN

Ended(i) == pc[i] \in {"done", "raised"}

\* invocations are numbered in the order they start
InOrder(i) == IF i = 1 THEN TRUE ELSE pc[i - 1] # "idle"

\* no other invocation is in progress
Quiescent(i) == \A j \in Inv \ {i} : pc[j] = "idle" \/ Ended(j)

\* no other invocation holds the thread: each is not started, ended, or an
\* acall suspended in "await self.agent.planner.acall(...)"
ThreadFree(i) ==
    \A j \in Inv \ {i} :
        pc[j] = "idle" \/ Ended(j) \/ (mode[j] = "acall" /\ pc[j] = "planner")

\* ------------------------------------------------------------ Runner.call
\* variant: the history list is emptied in place instead of replaced
Call_Start_Mut(i) ==
    /\ pc[i] = "idle" /\ InOrder(i) /\ Quiescent(i)
    /\ mode' = [mode EXCEPT ![i] = "call"]
    /\ step_history' = step_history
    /\ lists' = [lists EXCEPT ![step_history] = <<>>]
    /\ prompt_kwargs' = [prompt_kwargs EXCEPT ![i] = step_history]
    /\ step_count' = [step_count EXCEPT ![i] = 0]
    /\ last_output' = [last_output EXCEPT ![i] = NoneVal]
    /\ pc' = [pc EXCEPT ![i] = "loop"]
    /\ UNCHANGED <<config, direct, streaming, output, function, function_results, exc, ret, trace>>

\* lines 223-235
Call_Start(i) ==
    /\ pc[i] = "idle" /\ InOrder(i) /\ Quiescent(i)
    /\ mode' = [mode EXCEPT ![i] = "call"]
    /\ step_history' = i
    /\ lists' = [lists EXCEPT ![i] = <<>>]
    /\ prompt_kwargs' = [prompt_kwargs EXCEPT ![i] = i]
    /\ step_count' = [step_count EXCEPT ![i] = 0]
    /\ last_output' = [last_output EXCEPT ![i] = NoneVal]
    /\ pc' = [pc EXCEPT ![i] = "loop"]
    /\ UNCHANGED <<config, direct, streaming, output, function, function_results, exc, ret, trace>>

\* variant: loop bound off by one (step_count <= max_steps)
Call_Loop_Mut(i) ==
    /\ mode[i] = "call" /\ pc[i] = "loop"
    /\ pc' = [pc EXCEPT ![i] = IF step_count[i] <= max_steps THEN "planner" ELSE "return"]
    /\ UNCHANGED <<config, direct, streaming, step_history, lists, mode, step_count, last_output,
                   prompt_kwargs, output, function, function_results, exc, ret, trace>>

\* line 240
Call_Loop(i) ==
    /\ mode[i] = "call" /\ pc[i] = "loop"
    /\ pc' = [pc EXCEPT ![i] = IF step_count[i] < max_steps THEN "planner" ELSE "return"]
    /\ UNCHANGED <<config, direct, streaming, step_history, lists, mode, step_count, last_output,
                   prompt_kwargs, output, function, function_results, exc, ret, trace>>

\* lines 243-248
Call_Planner(i) ==
    /\ mode[i] = "call" /\ pc[i] = "planner"
    /\ \E o \in PlannerOutcomes :
         /\ trace' = [trace EXCEPT ![i] = Append(@, [out |-> o, res |-> NotCalled])]
         /\ IF o = PlannerRaises
            THEN /\ exc' = [exc EXCEPT ![i] = "planner failed"]
                 /\ pc' = [pc EXCEPT ![i] = "except"]
                 /\ UNCHANGED output
            ELSE /\ output' = [output EXCEPT ![i] = o]
                 /\ pc' = [pc EXCEPT ![i] = "validate"]
                 /\ UNCHANGED exc
    /\ UNCHANGED <<config, direct, streaming, step_history, lists, mode, step_count, last_output,
                   prompt_kwargs, function, function_results, ret>>

\* variant: the planner output handed on without the checks of lines 185-195
Call_Validate_Mut(i) ==
    /\ mode[i] = "call" /\ pc[i] = "validate"
    /\ function' = [function EXCEPT ![i] = output[i].data]
    /\ pc' = [pc EXCEPT ![i] = "dispatch"]
    /\ UNCHANGED <<config, direct, streaming, step_history, lists, mode, step_count,
                   last_output, prompt_kwargs, output, function_results, exc, ret, trace>>

\* line 250
Call_Validate(i) ==
    /\ mode[i] = "call" /\ pc[i] = "validate"
    /\ LET r == _get_planner_function(output[i]) IN
         IF r.ok
         THEN /\ function' = [function EXCEPT ![i] = r.val]
              /\ pc' = [pc EXCEPT ![i] = "dispatch"]
              /\ UNCHANGED exc
         ELSE /\ exc' = [exc EXCEPT ![i] = r.err]
              /\ pc' = [pc EXCEPT ![i] = "except"]
              /\ UNCHANGED function
    /\ UNCHANGED <<config, direct, streaming, step_history, lists, mode, step_count, last_output,
                   prompt_kwargs, output, function_results, ret, trace>>

\* line 253 (and _tool_execute, lines 421-430)
Call_Dispatch(i) ==
    /\ mode[i] = "call" /\ pc[i] = "dispatch"
    /\ \E r \in ToolOutcomes :
         /\ trace' = [trace EXCEPT ![i][Len(trace[i])].res = r]
         /\ IF r = ToolRaises
            THEN /\ exc' = [exc EXCEPT ![i] = "tool failed"]
                 /\ pc' = [pc EXCEPT ![i] = "except"]
                 /\ UNCHANGED function_results
            ELSE /\ function_results' = [function_results EXCEPT ![i] = r]
                 /\ pc' = [pc EXCEPT ![i] = "record"]
                 /\ UNCHANGED exc
    /\ UNCHANGED <<config, direct, streaming, step_history, lists, mode, step_count, last_output,
                   prompt_kwargs, output, function, ret>>

\* variant: the finish step is left to be recorded after its coercion
Call_Record_Mut(i) ==
    /\ mode[i] = "call" /\ pc[i] = "record"
    /\ lists' = IF _check_last_step(function[i]) THEN lists
                ELSE [lists EXCEPT ![step_history] =
                        Append(@, StepOutput(step_count[i], function[i], function_results[i]))]
    /\ pc' = [pc EXCEPT ![i] = "check"]
    /\ UNCHANGED <<config, direct, streaming, step_history, mode, step_count, last_output,
                   prompt_kwargs, output, function, function_results, exc, ret, trace>>

\* lines 256-262: the append goes to whatever list self.step_history names now
Call_Record(i) ==
    /\ mode[i] = "call" /\ pc[i] = "record"
    /\ lists' = [lists EXCEPT ![step_history] =
                    Append(@, StepOutput(step_count[i], function[i], function_results[i]))]
    /\ pc' = [pc EXCEPT ![i] = "check"]
    /\ UNCHANGED <<config, direct, streaming, step_history, mode, step_count, last_output,
                   prompt_kwargs, output, function, function_results, exc, ret, trace>>

\* variant: the break of line 266 left out
Call_Check_Mut(i) ==
    /\ mode[i] = "call" /\ pc[i] = "check"
    /\ IF _check_last_step(function[i])
       THEN LET r == ProcessData(answer_data_type, function_results[i]) IN
            IF r.ok
            THEN /\ last_output' = [last_output EXCEPT ![i] = r.val]
                 /\ step_count' = [step_count EXCEPT ![i] = @ + 1]
                 /\ pc' = [pc EXCEPT ![i] = "loop"]
                 /\ UNCHANGED exc
            ELSE /\ exc' = [exc EXCEPT ![i] = r.err]
                 /\ pc' = [pc EXCEPT ![i] = "except"]
                 /\ UNCHANGED <<last_output, step_count>>
       ELSE /\ step_count' = [step_count EXCEPT ![i] = @ + 1]
            /\ pc' = [pc EXCEPT ![i] = "loop"]
            /\ UNCHANGED <<exc, last_output>>
    /\ UNCHANGED <<config, direct, streaming, step_history, lists, mode, prompt_kwargs, output,
                   function, function_results, ret, trace>>

\* lines 264-274
Call_Check(i) ==
    /\ mode[i] = "call" /\ pc[i] = "check"
    /\ IF _check_last_step(function[i])
       THEN LET r == ProcessData(answer_data_type, function_results[i]) IN
            IF r.ok
            THEN /\ last_output' = [last_output EXCEPT ![i] = r.val]
                 /\ pc' = [pc EXCEPT ![i] = "return"]
                 /\ UNCHANGED <<exc, step_count>>
            ELSE /\ exc' = [exc EXCEPT ![i] = r.err]
                 /\ pc' = [pc EXCEPT ![i] = "except"]
                 /\ UNCHANGED <<last_output, step_count>>
       ELSE /\ step_count' = [step_count EXCEPT ![i] = @ + 1]
            /\ pc' = [pc EXCEPT ![i] = "loop"]
            /\ UNCHANGED <<exc, last_output>>
    /\ UNCHANGED <<config, direct, streaming, step_history, lists, mode, prompt_kwargs, output,
                   function, function_results, ret, trace>>

\* variant: the failed step is tried again
Call_Except_Retry(i) ==
    /\ mode[i] = "call" /\ pc[i] = "except"
    /\ pc' = [pc EXCEPT ![i] = "loop"]
    /\ UNCHANGED <<config, direct, streaming, step_history, lists, mode, step_count,
                   last_output, prompt_kwargs, output, function, function_results, exc,
                   ret, trace>>

\* variant: the message names the step after the failing one
Call_Except_Mut(i) ==
    /\ mode[i] = "call" /\ pc[i] = "except"
    /\ ret' = [ret EXCEPT ![i] = [kind |-> "raise", hist |-> -1,
                                  second |-> StrVal(error_msg(step_count[i] + 1, exc[i]))]]
    /\ pc' = [pc EXCEPT ![i] = "raised"]
    /\ UNCHANGED <<config, direct, streaming, step_history, lists, mode, step_count, last_output,
                   prompt_kwargs, output, function, function_results, exc, trace>>

\* lines 276-279: raise ValueError(error_msg)
Call_Except(i) ==
    /\ mode[i] = "call" /\ pc[i] = "except"
    /\ ret' = [ret EXCEPT ![i] = [kind |-> "raise", hist |-> -1,
                                  second |-> StrVal(error_msg(step_count[i], exc[i]))]]
    /\ pc' = [pc EXCEPT ![i] = "raised"]
    /\ UNCHANGED <<config, direct, streaming, step_history, lists, mode, step_count, last_output,
                   prompt_kwargs, output, function, function_results, exc, trace>>

\* variant: the last observation returned in place of last_output
Call_Return_Mut(i) ==
    /\ mode[i] = "call" /\ pc[i] = "return"
    /\ ret' = [ret EXCEPT ![i] = [kind |-> "return", hist |-> step_history,
                                  second |-> function_results[i]]]
    /\ pc' = [pc EXCEPT ![i] = "done"]
    /\ UNCHANGED <<config, direct, streaming, step_history, lists, mode, step_count, last_output,
                   prompt_kwargs, output, function, function_results, exc, trace>>

\* line 281
Call_Return(i) ==
    /\ mode[i] = "call" /\ pc[i] = "return"
    /\ ret' = [ret EXCEPT ![i] = [kind |-> "return", hist |-> step_history,
                                  second |-> last_output[i]]]
    /\ pc' = [pc EXCEPT ![i] = "done"]
    /\ UNCHANGED <<config, direct, streaming, step_history, lists, mode, step_count, last_output,
                   prompt_kwargs, output, function, function_results, exc, trace>>

\* ----------------------------------------------------------- Runner.acall
\* lines 305-314
Acall_Begin(i) ==
    /\ mode' = [mode EXCEPT ![i] = "acall"]
    /\ step_history' = i
    /\ lists' = [lists EXCEPT ![i] = <<>>]
    /\ prompt_kwargs' = [prompt_kwargs EXCEPT ![i] = i]
    /\ step_count' = [step_count EXCEPT ![i] = 0]
    /\ last_output' = [last_output EXCEPT ![i] = NoneVal]
    /\ pc' = [pc EXCEPT ![i] = "loop"]
    /\ UNCHANGED <<config, direct, streaming, output, function, function_results, exc, ret, trace>>

\* acall entered while no other invocation is in progress
Acall_Start(i) ==
    /\ pc[i] = "idle" /\ InOrder(i) /\ Quiescent(i)
    /\ Acall_Begin(i)

\* acall entered by another task while an earlier acall is suspended in its
\* await (two coroutines of one event loop sharing the Runner)
Acall_StartInterleaved(i) ==
    /\ pc[i] = "idle" /\ InOrder(i) /\ ThreadFree(i) /\ ~Quiescent(i)
    /\ Acall_Begin(i)

\* variant: loop bound off by one (step_count <= max_steps)
Acall_Loop_Mut(i) ==
    /\ mode[i] = "acall" /\ pc[i] = "loop"
    /\ pc' = [pc EXCEPT ![i] = IF step_count[i] <= max_steps THEN "planner" ELSE "return"]
    /\ UNCHANGED <<config, direct, streaming, step_history, lists, mode, step_count,
                   last_output, prompt_kwargs, output, function, function_results, exc,
                   ret, trace>>

\* line 316
Acall_Loop(i) ==
    /\ mode[i] = "acall" /\ pc[i] = "loop"
    /\ pc' = [pc EXCEPT ![i] = IF step_count[i] < max_steps THEN "planner" ELSE "return"]
    /\ UNCHANGED <<config, direct, streaming, step_history, lists, mode, step_count, last_output,
                   prompt_kwargs, output, function, function_results, exc, ret, trace>>

\* lines 319-324: the await completes and the coroutine is resumed
Acall_Planner(i) ==
    /\ mode[i] = "acall" /\ pc[i] = "planner" /\ ThreadFree(i)
    /\ \E o \in PlannerOutcomes :
         /\ trace' = [trace EXCEPT ![i] = Append(@, [out |-> o, res |-> NotCalled])]
         /\ IF o = PlannerRaises
            THEN /\ exc' = [exc EXCEPT ![i] = "planner failed"]
                 /\ pc' = [pc EXCEPT ![i] = "except"]
                 /\ UNCHANGED output
            ELSE /\ output' = [output EXCEPT ![i] = o]
                 /\ pc' = [pc EXCEPT ![i] = "validate"]
                 /\ UNCHANGED exc
    /\ UNCHANGED <<config, direct, streaming, step_history, lists, mode, step_count, last_output,
                   prompt_kwargs, function, function_results, ret>>

\* line 326
Acall_Validate(i) ==
    /\ mode[i] = "acall" /\ pc[i] = "validate"
    /\ LET r == _get_planner_function(output[i]) IN
         IF r.ok
         THEN /\ function' = [function EXCEPT ![i] = r.val]
              /\ pc' = [pc EXCEPT ![i] = "dispatch"]
              /\ UNCHANGED exc
         ELSE /\ exc' = [exc EXCEPT ![i] = r.err]
              /\ pc' = [pc EXCEPT ![i] = "except"]
              /\ UNCHANGED function
    /\ UNCHANGED <<config, direct, streaming, step_history, lists, mode, step_count, last_output,
                   prompt_kwargs, output, function_results, ret, trace>>

\* variant: a failed tool call is recorded with an empty observation
Acall_Dispatch_Mut(i) ==
    /\ mode[i] = "acall" /\ pc[i] = "dispatch"
    /\ \E r \in ToolOutcomes :
         /\ trace' = [trace EXCEPT ![i][Len(trace[i])].res = r]
         /\ IF r = ToolRaises
            THEN /\ exc' = [exc EXCEPT ![i] = "tool failed"]
                 /\ pc' = [pc EXCEPT ![i] = "except"]
                 /\ lists' = [lists EXCEPT ![step_history] =
                                 Append(@, StepOutput(step_count[i], function[i], NoneVal))]
                 /\ UNCHANGED function_results
            ELSE /\ function_results' = [function_results EXCEPT ![i] = r]
                 /\ pc' = [pc EXCEPT ![i] = "record"]
                 /\ UNCHANGED <<exc, lists>>
    /\ UNCHANGED <<config, direct, streaming, step_history, mode, step_count, last_output,
                   prompt_kwargs, output, function, ret>>

\* line 327 (and _tool_execute, lines 421-430; not awaited)
Acall_Dispatch(i) ==
    /\ mode[i] = "acall" /\ pc[i] = "dispatch"
    /\ \E r \in ToolOutcomes :
         /\ trace' = [trace EXCEPT ![i][Len(trace[i])].res = r]
         /\ IF r = ToolRaises
            THEN /\ exc' = [exc EXCEPT ![i] = "tool failed"]
                 /\ pc' = [pc EXCEPT ![i] = "except"]
                 /\ UNCHANGED function_results
            ELSE /\ function_results' = [function_results EXCEPT ![i] = r]
                 /\ pc' = [pc EXCEPT ![i] = "record"]
                 /\ UNCHANGED exc
    /\ UNCHANGED <<config, direct, streaming, step_history, lists, mode, step_count, last_output,
                   prompt_kwargs, output, function, ret>>

\* lines 329-335
Acall_Record(i) ==
    /\ mode[i] = "acall" /\ pc[i] = "record"
    /\ lists' = [lists EXCEPT ![step_history] =
                    Append(@, StepOutput(step_count[i], function[i], function_results[i]))]
    /\ pc' = [pc EXCEPT ![i] = "check"]
    /\ UNCHANGED <<config, direct, streaming, step_history, mode, step_count, last_output,
                   prompt_kwargs, output, function, function_results, exc, ret, trace>>

\* variant: the finish observation returned without _process_data
Acall_Check_Mut(i) ==
    /\ mode[i] = "acall" /\ pc[i] = "check"
    /\ IF _check_last_step(function[i])
       THEN /\ last_output' = [last_output EXCEPT ![i] = function_results[i]]
            /\ pc' = [pc EXCEPT ![i] = "return"]
            /\ UNCHANGED <<exc, step_count>>
       ELSE /\ step_count' = [step_count EXCEPT ![i] = @ + 1]
            /\ pc' = [pc EXCEPT ![i] = "loop"]
            /\ UNCHANGED <<exc, last_output>>
    /\ UNCHANGED <<config, direct, streaming, step_history, lists, mode, prompt_kwargs, output,
                   function, function_results, ret, trace>>

\* lines 337-348
Acall_Check(i) ==
    /\ mode[i] = "acall" /\ pc[i] = "check"
    /\ IF _check_last_step(function[i])
       THEN LET r == ProcessData(answer_data_type, function_results[i]) IN
            IF r.ok
            THEN /\ last_output' = [last_output EXCEPT ![i] = r.val]
                 /\ pc' = [pc EXCEPT ![i] = "return"]
                 /\ UNCHANGED <<exc, step_count>>
            ELSE /\ exc' = [exc EXCEPT ![i] = r.err]
                 /\ pc' = [pc EXCEPT ![i] = "except"]
                 /\ UNCHANGED <<last_output, step_count>>
       ELSE /\ step_count' = [step_count EXCEPT ![i] = @ + 1]
            /\ pc' = [pc EXCEPT ![i] = "loop"]
            /\ UNCHANGED <<exc, last_output>>
    /\ UNCHANGED <<config, direct, streaming, step_history, lists, mode, prompt_kwargs, output,
                   function, function_results, ret, trace>>

\* variant: acall raises like call
Acall_Except_Mut(i) ==
    /\ mode[i] = "acall" /\ pc[i] = "except"
    /\ ret' = [ret EXCEPT ![i] = [kind |-> "raise", hist |-> -1,
                                  second |-> StrVal(error_msg(step_count[i], exc[i]))]]
    /\ pc' = [pc EXCEPT ![i] = "raised"]
    /\ UNCHANGED <<config, direct, streaming, step_history, lists, mode, step_count, last_output,
                   prompt_kwargs, output, function, function_results, exc, trace>>

\* lines 350-353: return self.step_history, error_msg
Acall_Except(i) ==
    /\ mode[i] = "acall" /\ pc[i] = "except"
    /\ ret' = [ret EXCEPT ![i] = [kind |-> "return", hist |-> step_history,
                                  second |-> StrVal(error_msg(step_count[i], exc[i]))]]
    /\ pc' = [pc EXCEPT ![i] = "done"]
    /\ UNCHANGED <<config, direct, streaming, step_history, lists, mode, step_count, last_output,
                   prompt_kwargs, output, function, function_results, exc, trace>>

\* line 355
Acall_Return(i) ==
    /\ mode[i] = "acall" /\ pc[i] = "return"
    /\ ret' = [ret EXCEPT ![i] = [kind |-> "return", hist |-> step_history,
                                  second |-> last_output[i]]]
    /\ pc' = [pc EXCEPT ![i] = "done"]
    /\ UNCHANGED <<config, direct, streaming, step_history, lists, mode, step_count, last_output,
                   prompt_kwargs, output, function, function_results, exc, trace>>

\* ------------------------------------------------- direct _process_data call
ProcessDataCall(d) ==
    /\ pd_data' = d
    /\ pd_result' = ProcessData(answer_data_type, d)
    /\ UNCHANGED <<config, streaming, step_history, lists, mode, pc, step_count,
                   last_output, prompt_kwargs, output, function, function_results,
                   exc, ret, trace>>

\* ---------------------------------------------------------- Runner.stream
\* the tuple returned by call, as one Python value
TupleResult(r) == [t |-> "tuple", v |-> <<r.hist, r.second>>]

\* hasattr(x, "data"): a GeneratorOutput has the attribute, a tuple has not
HasAttrData(x) == x.t = "GeneratorOutput"

\* hasattr(x, "__iter__")
Iterable(x) == x.t \in {"str", "dict", "list", "tuple"}

\* the items "for chunk in x" produces: the characters of a str, the keys of
\* a dict, the items of a list
Elements(x) ==
    CASE x = StrVal("4") -> <<StrVal("4")>>
      [] x = StrVal("{}") -> <<StrVal("{"), StrVal("}")>>
      [] x = StrVal("hello") ->
            <<StrVal("h"), StrVal("e"), StrVal("l"), StrVal("l"), StrVal("o")>>
      [] x = StrVal(XYText) ->
            <<StrVal("{"), StrVal("'"), StrVal("x"), StrVal("'"), StrVal(":"), StrVal(" "),
              StrVal("1"), StrVal(","), StrVal(" "), StrVal("'"), StrVal("y"), StrVal("'"),
              StrVal(":"), StrVal(" "), StrVal("2"), StrVal("}")>>
      [] x = DictVal(XYText) -> <<StrVal("x"), StrVal("y")>>
      [] OTHER -> <<>>

\* self.config.stream_parser(chunk)
ParsedChunk(chunk) == [t |-> "parsed", v |-> chunk.v]

\* lines 386-399: what the generator is going to yield for the result g of call
StreamChunks(g) ==
    IF HasAttrData(g) /\ Iterable(g.data)
    THEN IF stream_parser
         THEN [p \in 1..Len(Elements(g.data)) |-> ParsedChunk(Elements(g.data)[p])]
         ELSE Elements(g.data)
    ELSE <<g>>

\* lines 377-384: the generator body starts and enters self.call (lines 223-235)
Stream_Start(i) ==
    /\ pc[i] = "idle" /\ InOrder(i) /\ Quiescent(i)
    /\ stream_pc' = [stream_pc EXCEPT ![i] = "call"]
    /\ mode' = [mode EXCEPT ![i] = "call"]
    /\ step_history' = i
    /\ lists' = [lists EXCEPT ![i] = <<>>]
    /\ prompt_kwargs' = [prompt_kwargs EXCEPT ![i] = i]
    /\ step_count' = [step_count EXCEPT ![i] = 0]
    /\ last_output' = [last_output EXCEPT ![i] = NoneVal]
    /\ pc' = [pc EXCEPT ![i] = "loop"]
    /\ UNCHANGED <<config, direct, stream_parser, pending, chunks, output, function,
                   function_results, exc, ret, trace>>

\* lines 386-399: self.call has returned
Stream_Body(i) ==
    /\ stream_pc[i] = "call" /\ pc[i] = "done"
    /\ pending' = [pending EXCEPT ![i] = StreamChunks(TupleResult(ret[i]))]
    /\ stream_pc' = [stream_pc EXCEPT ![i] = "yield"]
    /\ UNCHANGED <<config, direct, stream_parser, chunks, step_history, lists, mode, pc,
                   step_count, last_output, prompt_kwargs, output, function,
                   function_results, exc, ret, trace>>

\* a yield of lines 392, 396, 399: the consumer receives the next chunk
Stream_Next(i) ==
    /\ stream_pc[i] = "yield" /\ pending[i] # <<>>
    /\ chunks' = [chunks EXCEPT ![i] = Append(@, Head(pending[i]))]
    /\ pending' = [pending EXCEPT ![i] = Tail(@)]
    /\ UNCHANGED <<config, direct, stream_parser, stream_pc, step_history, lists, mode,
                   pc, step_count, last_output, prompt_kwargs, output, function,
                   function_results, exc, ret, trace>>

\* the generator body runs off its end: the sequence ends normally
Stream_End(i) ==
    /\ stream_pc[i] = "yield" /\ pending[i] = <<>>
    /\ stream_pc' = [stream_pc EXCEPT ![i] = "ended"]
    /\ UNCHANGED <<config, direct, stream_parser, pending, chunks, step_history, lists,
                   mode, pc, step_count, last_output, prompt_kwargs, output, function,
                   function_results, exc, ret, trace>>

\* variant: the exception logged and swallowed
Stream_Raise_Mut(i) ==
    /\ stream_pc[i] = "call" /\ pc[i] = "raised"
    /\ stream_pc' = [stream_pc EXCEPT ![i] = "ended"]
    /\ UNCHANGED <<config, direct, stream_parser, pending, chunks, step_history, lists,
                   mode, pc, step_count, last_output, prompt_kwargs, output, function,
                   function_results, exc, ret, trace>>

\* lines 401-403: self.call has raised; the exception is re-raised to the consumer
Stream_Raise(i) ==
    /\ stream_pc[i] = "call" /\ pc[i] = "raised"
    /\ stream_pc' = [stream_pc EXCEPT ![i] = "raised"]
    /\ UNCHANGED <<config, direct, stream_parser, pending, chunks, step_history, lists,
                   mode, pc, step_count, last_output, prompt_kwargs, output, function,
                   function_results, exc, ret, trace>>

\* ---------------------------------------------------------- specifications
\* invocations of call and acall on one Runner, one after the other
Next ==
    \E i \in Inv :
        \/ Call_Start(i) \/ Call_Loop(i) \/ Call_Planner(i) \/ Call_Validate(i)
        \/ Call_Dispatch(i) \/ Call_Record(i) \/ Call_Check(i) \/ Call_Except(i)
        \/ Call_Return(i)
        \/ Acall_Start(i) \/ Acall_Loop(i) \/ Acall_Planner(i) \/ Acall_Validate(i)
        \/ Acall_Dispatch(i) \/ Acall_Record(i) \/ Acall_Check(i) \/ Acall_Except(i)
        \/ Acall_Return(i)

Spec == Init /\ [][Next]_vars

\* the same, and acall invocations that interleave at their await
NextConc ==
    \/ Next
    \/ \E i \in Inv : Acall_StartInterleaved(i)

SpecConc == Init /\ [][NextConc]_vars

\* the same as Spec, with every call the loop makes returning or raising in
\* the end: an invocation that can take a step eventually takes one
SpecLive == Init /\ [][Next]_vars /\ WF_vars(Next)

\* _process_data applied to every value under every answer_data_type
NextCoerce == \E d \in Values : ProcessDataCall(d)

SpecCoerce == Init /\ [][NextCoerce]_vars

\* call, acall and stream invocations on one Runner
NextStream ==
    \/ Next
    \/ \E i \in Inv :
          Stream_Start(i) \/ Stream_Body(i) \/ Stream_Next(i) \/ Stream_End(i) \/ Stream_Raise(i)

SpecStream == InitStream /\ [][NextStream]_vars

\* ------------------------------------------------- reading an invocation
\* what happened at one step, from what the planner and the tool layer did
IsFinish(e) == e.out = Envelope("finish")
Dispatched(e) == e.out.kind = "GeneratorOutput" /\ e.out.data \in ActionNames
Observed(e) == Dispatched(e) /\ e.res \in Observations
CoercionFailed(e) ==
    IsFinish(e) /\ Observed(e) /\ ~ProcessData(answer_data_type, e.res).ok
StepFailed(e) ==
    \/ e.out = PlannerRaises
    \/ ~Dispatched(e)
    \/ e.res = ToolRaises
    \/ CoercionFailed(e)

Failed(i) == \E p \in 1..Len(trace[i]) : StepFailed(trace[i][p])
FailureFree(i) == ~Failed(i)
HasFinish(i) == \E p \in 1..Len(trace[i]) : IsFinish(trace[i][p])
FirstFinish(i) ==
    CHOOSE p \in 1..Len(trace[i]) :
        IsFinish(trace[i][p]) /\ \A q \in 1..(p - 1) : ~IsFinish(trace[i][q])

\* the records invocation i has appended so far
Appended(i) ==
    LET n == Cardinality({p \in 1..Len(trace[i]) : Observed(trace[i][p])})
    IN IF pc[i] = "record" THEN n - 1 ELSE n
OwnRecords(i) ==
    [p \in 1..Appended(i) |->
        [step |-> p - 1, action |-> trace[i][p].out.data, observation |-> trace[i][p].res]]

IsPrefix(s, t) == Len(s) <= Len(t) /\ \A p \in 1..Len(s) : s[p] = t[p]

\* ------------------------------------------------------------------ claims

\* C1: a failure-free run whose first finish action comes at step k returns
\* a history of exactly k+1 records and, as Final Output, what _process_data
\* makes of the observation of step k.
C1_FinishHistoryAndOutput ==
    \A i \in Inv :
        (Ended(i) /\ FailureFree(i) /\ HasFinish(i)) =>
            LET k == FirstFinish(i) - 1 IN
            /\ k < max_steps
            /\ ret[i].kind = "return"
            /\ Len(lists[ret[i].hist]) = k + 1
            /\ ret[i].second = ProcessData(answer_data_type, trace[i][k + 1].res).val

C1_Witness ==
    /\ answer_data_type = "PydXY"
    /\ \E i, j \in Inv :
        /\ mode[i] = "call" /\ pc[i] = "done" /\ FailureFree(i)
        /\ HasFinish(i) /\ FirstFinish(i) = 1 /\ Len(lists[ret[i].hist]) = 1
        /\ mode[j] = "acall" /\ pc[j] = "done" /\ FailureFree(j)
        /\ HasFinish(j) /\ FirstFinish(j) = 2 /\ ret[j].second.t = "PydXY"

\* C2: a failure-free run without any finish action returns, from call and
\* from acall alike, a history of exactly max_steps records and an unset
\* (None) second element.
C2_ExhaustionReturnsMaxSteps ==
    \A i \in Inv :
        (Ended(i) /\ FailureFree(i) /\ ~HasFinish(i)) =>
            /\ ret[i].kind = "return"
            /\ Len(lists[ret[i].hist]) = max_steps
            /\ ret[i].second = NoneVal

C2_Witness ==
    /\ max_steps = MaxSteps
    /\ \E i, j \in Inv :
        /\ mode[i] = "call" /\ mode[j] = "acall"
        /\ \A m \in {i, j} :
            /\ pc[m] = "done" /\ FailureFree(m) /\ ~HasFinish(m)
            /\ Len(trace[m]) = MaxSteps

\* C3: in every list of step records, the record at position i (from 0)
\* carries step index i.
C3_StepIndices ==
    \A l \in ListIds : \A p \in 1..Len(lists[l]) : lists[l][p].step = p - 1

C3_Witness ==
    \E i, j \in Inv :
        /\ mode[i] = "call" /\ mode[j] = "acall"
        /\ \A m \in {i, j} : Ended(m) /\ ret[m].kind = "return" /\ Len(lists[ret[m].hist]) >= 2

\* C4 (as stated): the second element is set only after a finish; after step
\* exhaustion or an error it is unset.
C4_SecondOnlyAfterFinish ==
    \A i \in Inv :
        (Ended(i) /\ ret[i].kind = "return") =>
            /\ ret[i].second # NoneVal => (HasFinish(i) /\ FailureFree(i))
            /\ (Failed(i) \/ ~HasFinish(i)) => ret[i].second = NoneVal

\* C4 (amended): a coerced Final Output is returned only after a finish;
\* after step exhaustion the second element is None; after an error call
\* returns nothing and acall returns the error description in its place.
C4_FinalOutputOrErrorMarker ==
    \A i \in Inv :
        Ended(i) =>
            LET err == StrVal(error_msg(Len(trace[i]) - 1, exc[i])) IN
            /\ (FailureFree(i) /\ ~HasFinish(i)) =>
                   (ret[i].kind = "return" /\ ret[i].second = NoneVal)
            /\ (Failed(i) /\ mode[i] = "call") => ret[i].kind = "raise"
            /\ (Failed(i) /\ mode[i] = "acall") =>
                   (ret[i].kind = "return" /\ ret[i].second = err /\ ret[i].second # NoneVal)
            /\ (ret[i].kind = "return" /\ ret[i].second \notin {NoneVal, err}) =>
                   (HasFinish(i) /\ FailureFree(i))

C4_Witness ==
    \E j, m \in Inv :
        /\ mode[j] = "acall" /\ pc[j] = "done" /\ Failed(j) /\ ret[j].second.t = "str"
        /\ pc[m] = "done" /\ FailureFree(m) /\ HasFinish(m) /\ ret[m].second # NoneVal

\* C5: in call, a failure at step k (planner, validation, dispatch or
\* coercion) ends the invocation with one raised error whose message names
\* step k; nothing is returned.
C5_CallRaisesWithStep ==
    \A i \in Inv :
        (mode[i] = "call" /\ Ended(i) /\ Failed(i)) =>
            /\ pc[i] = "raised"
            /\ ret[i].kind = "raise"
            /\ ret[i].second = StrVal(error_msg(Len(trace[i]) - 1, exc[i]))

C5_Witness ==
    \E i \in Inv :
        /\ mode[i] = "call" /\ pc[i] = "raised" /\ Len(trace[i]) = 2
        /\ CoercionFailed(trace[i][2])

\* C6: in acall, a failure at step k is returned, not raised: the pair of
\* the records appended so far and an error description naming step k.
C6_AcallReturnsError ==
    \A i \in Inv :
        (mode[i] = "acall" /\ Ended(i) /\ Failed(i)) =>
            /\ pc[i] = "done"
            /\ ret[i].kind = "return"
            /\ lists[ret[i].hist] = OwnRecords(i)
            /\ ret[i].second = StrVal(error_msg(Len(trace[i]) - 1, exc[i]))

C6_Witness ==
    \E i \in Inv :
        /\ mode[i] = "acall" /\ pc[i] = "done" /\ Len(trace[i]) = 2
        /\ trace[i][2].res = ToolRaises /\ Len(lists[ret[i].hist]) = 1

\* C7: whenever the planner is being called, the list under
\* prompt_kwargs["step_history"] holds exactly the records the same
\* invocation has appended so far, and the list an invocation created holds
\* its own records and no others - also for interleaved acall invocations.
C7_PlannerSeesOwnHistory ==
    \A i \in Inv :
        /\ pc[i] = "planner" => lists[prompt_kwargs[i]] = OwnRecords(i)
        /\ pc[i] # "idle" => lists[i] = OwnRecords(i)

\* C8: every invocation starts on an empty history whatever the previous one
\* did, and a returned history holds the records of its own invocation only,
\* now and after any later invocation.
C8_FreshHistoryPerInvocation ==
    \A i \in Inv :
        /\ (pc[i] = "loop" /\ step_count[i] = 0) => lists[step_history] = <<>>
        /\ (pc[i] # "idle" /\ ~Ended(i)) => lists[step_history] = OwnRecords(i)
        /\ (Ended(i) /\ ret[i].kind = "return") => lists[ret[i].hist] = OwnRecords(i)

C8_Witness ==
    \E i, j \in Inv :
        /\ i < j
        /\ pc[i] = "done" /\ Failed(i) /\ Len(lists[ret[i].hist]) >= 1
        /\ pc[j] = "done" /\ Len(lists[ret[j].hist]) >= 1
        /\ lists[ret[j].hist] # lists[ret[i].hist]

\* C9: a call and an acall that are fed the same planner outputs and tool
\* results, failure-free, return equal histories and equal Final Outputs,
\* and while one of them is still running on a prefix of the other's inputs
\* its step counter and its history are the matching prefix.
C9_CallAcallAgree ==
    \A i, j \in Inv :
        (mode[i] = "call" /\ mode[j] = "acall" /\ FailureFree(i) /\ FailureFree(j)) =>
            /\ (Ended(i) /\ Ended(j) /\ trace[i] = trace[j]) =>
                  /\ ret[i].kind = "return" /\ ret[j].kind = "return"
                  /\ lists[ret[i].hist] = lists[ret[j].hist]
                  /\ ret[i].second = ret[j].second
            /\ \A a, b \in {i, j} :
                  (Ended(a) /\ pc[b] = "planner" /\ IsPrefix(trace[b], trace[a])) =>
                      /\ step_count[b] = Len(trace[b])
                      /\ IsPrefix(lists[step_history], lists[ret[a].hist])
                      /\ Len(lists[step_history]) = Len(trace[b])

C9_Witness ==
    /\ answer_data_type = "AdalXY"
    /\ \E i, j \in Inv :
        /\ mode[i] = "call" /\ mode[j] = "acall" /\ pc[i] = "done" /\ pc[j] = "done"
        /\ trace[i] = trace[j] /\ FailureFree(i) /\ HasFinish(i) /\ Len(trace[i]) = 2

\* C10 (as stated): _process_data never returns a falsy value, whatever the
\* answer_data_type configuration.
C10_NeverFalsySuccess ==
    (pd_data # NotCalled /\ pd_result.ok) => Truthy(pd_result.val)

\* C10 (amended): with an answer_data_type configured, _process_data never
\* returns a falsy value: a falsy value after coercion is a failure.
C10_NeverFalsySuccessWhenTyped ==
    (pd_data # NotCalled /\ answer_data_type # NoType) =>
        /\ pd_result.ok => Truthy(pd_result.val)
        /\ (IsInstance(pd_data, answer_data_type) /\ ~Truthy(pd_data)) => ~pd_result.ok

C10_Witness ==
    /\ answer_data_type = "dict" /\ pd_data = DictVal("{}") /\ ~pd_result.ok

\* C11: with no answer_data_type configured, _process_data returns every
\* observation unchanged, falsy ones included.
C11_UntypedIsIdentity ==
    (pd_data # NotCalled /\ answer_data_type = NoType) =>
        (pd_result.ok /\ pd_result.val = pd_data)

C11_Witness ==
    /\ answer_data_type = NoType /\ pd_data = IntVal("0")
    /\ pd_result.ok /\ pd_result.val = IntVal("0")

C13_StreamYieldsElements ==
    \A i \in Inv :
        stream_pc[i] = "ended" =>
            LET payload == ret[i].second
                items == Elements(payload) IN
            IF Iterable(payload)
            THEN chunks[i] = [p \in 1..Len(items) |->
                                 IF stream_parser THEN ParsedChunk(items[p]) ELSE items[p]]
            ELSE chunks[i] = <<TupleResult(ret[i])>>

\* C14: when the call under a stream has failed, the consumer gets the error:
\* no chunk is yielded and the sequence does not end normally.
C14_StreamPropagatesFailure ==
    \A i \in Inv :
        (stream_pc[i] # "none" /\ Ended(i) /\ Failed(i)) =>
            /\ pc[i] = "raised"
            /\ stream_pc[i] \in {"call", "raised"}
            /\ chunks[i] = <<>> /\ pending[i] = <<>>

C14_Witness ==
    \E i \in Inv :
        /\ stream_pc[i] = "raised" /\ Len(trace[i]) = 2
        /\ trace[i][2].res = ToolRaises /\ ret[i].kind = "raise"

\* C15: once a step of an invocation has failed, that invocation calls the
\* planner no more, dispatches no more and appends no more: it only leaves
\* through its except clause.
C15_AbortedIsTerminal ==
    [][\A i \in Inv :
          (pc[i] = "except" \/ (Ended(i) /\ Failed(i))) =>
              /\ trace'[i] = trace[i]
              /\ lists'[i] = lists[i]
              /\ pc'[i] \in {"except", "done", "raised"}]_vars

C15_Witness ==
    \E i, j \in Inv :
        /\ i < j /\ Ended(i) /\ Failed(i) /\ Len(trace[i]) = 2 /\ Len(lists[i]) = 1
        /\ pc[j] = "check" /\ Len(lists[j]) = 1

\* C16: in every step the planner is called, then its output is validated,
\* then the tool is called, then the record is appended; the planner is called
\* for the next step only when every earlier step has its record; the tool is
\* never called for an output that is not a GeneratorOutput holding a Function.
C16_StepOrder ==
    /\ [](\A i \in Inv :
            /\ \A p \in 1..Len(trace[i]) :
                  trace[i][p].res # NotCalled => Dispatched(trace[i][p])
            /\ pc[i] = "planner" =>
                  /\ Len(lists[i]) = Len(trace[i])
                  /\ \A p \in 1..Len(trace[i]) : Observed(trace[i][p])
            /\ pc[i] = "record" =>
                  /\ Observed(trace[i][Len(trace[i])])
                  /\ Len(lists[i]) = Len(trace[i]) - 1)
    /\ [][\A i \in Inv :
            /\ Len(trace'[i]) # Len(trace[i]) =>
                  (pc[i] = "planner" /\ Len(trace'[i]) = Len(trace[i]) + 1)
            /\ (Len(trace'[i]) = Len(trace[i]) /\ trace'[i] # trace[i]) =>
                  (pc[i] = "dispatch" /\ trace[i][Len(trace[i])].res = NotCalled)
            /\ (pc[i] # "idle" /\ lists'[i] # lists[i]) =>
                  (pc[i] = "record" /\ pc'[i] = "check"
                   /\ Len(lists'[i]) = Len(lists[i]) + 1)
            /\ pc[i] = "planner" => pc'[i] \in {"planner", "validate", "except"}
            /\ pc[i] = "validate" => pc'[i] \in {"validate", "dispatch", "except"}
            /\ pc[i] = "dispatch" => pc'[i] \in {"dispatch", "record", "except"}
            /\ pc[i] = "record" => pc'[i] \in {"record", "check"}]_vars

C16_Witness ==
    \E i, j \in Inv :
        /\ Ended(i) /\ Len(trace[i]) = 1 /\ trace[i][1].out = Envelope("<None>")
        /\ trace[i][1].res = NotCalled
        /\ pc[j] = "planner" /\ Len(trace[j]) = 1 /\ Len(lists[j]) = 1

\* C17: an invocation never makes more than max_steps planner calls or tool
\* calls, no history ever holds more than max_steps records, and every
\* invocation that has started ends.
C17_BoundedAndTerminates ==
    /\ [](/\ \A i \in Inv :
               /\ Len(trace[i]) <= max_steps
               /\ Cardinality({p \in 1..Len(trace[i]) : trace[i][p].res # NotCalled})
                      <= max_steps
          /\ \A l \in ListIds : Len(lists[l]) <= max_steps)
    /\ \A i \in Inv : (pc[i] # "idle") ~> Ended(i)

C17_Witness ==
    /\ max_steps = MaxSteps
    /\ \E i, j \in Inv :
        /\ mode[i] = "call" /\ mode[j] = "acall"
        /\ \A m \in {i, j} : Ended(m) /\ Len(trace[m]) = max_steps /\ Len(lists[m]) = max_steps

\* C18: a record whose action is "finish" is the last record of its history
\* (so there is at most one), and once it is recorded its invocation calls the
\* planner no more, dispatches no more and appends no more.
C18_FinishIsLast ==
    /\ [](/\ \A l \in ListIds : \A p \in 1..Len(lists[l]) :
                lists[l][p].action = "finish" => p = Len(lists[l])
          /\ \A i \in Inv :
                (lists[i] # <<>> /\ lists[i][Len(lists[i])].action = "finish") =>
                    pc[i] \in {"check", "return", "except", "done", "raised"})
    /\ [][\A i \in Inv :
            (lists[i] # <<>> /\ lists[i][Len(lists[i])].action = "finish") =>
                (trace'[i] = trace[i] /\ lists'[i] = lists[i])]_vars

C18_Witness ==
    \E i, j \in Inv :
        /\ i < j /\ pc[i] = "done" /\ Len(lists[i]) = 2 /\ lists[i][2].action = "finish"
        /\ lists[i][1].action = "compute" /\ Ended(j)

\* C19: when step k fails in the planner call, in the validation of its
\* output or in the tool call, the history holds the k records of steps
\* 0..k-1 and nothing of step k: the list acall returns, and the list
\* self.step_history names after call has raised.
C19_FailedStepLeavesNoRecord ==
    \A i \in Inv :
        (Ended(i) /\ Len(trace[i]) > 0) =>
            LET k == Len(trace[i]) - 1
                e == trace[i][k + 1]
                h == IF mode[i] = "acall" THEN ret[i].hist ELSE i IN
            (e.out = PlannerRaises \/ ~Dispatched(e) \/ e.res = ToolRaises) =>
                /\ Len(lists[h]) = k
                /\ \A p \in 1..k :
                      lists[h][p] = [step |-> p - 1, action |-> trace[i][p].out.data,
                                     observation |-> trace[i][p].res]
                /\ (mode[i] = "call" /\ \A j \in Inv : j > i => pc[j] = "idle") =>
                      (pc[i] = "raised" /\ step_history = i)

C19_Witness ==
    \E i, j \in Inv :
        /\ mode[i] = "acall" /\ pc[i] = "done" /\ Len(trace[i]) = 2
        /\ trace[i][2].res = ToolRaises /\ Len(lists[ret[i].hist]) = 1
        /\ mode[j] = "call" /\ pc[j] = "raised" /\ Len(trace[j]) = 2
        /\ trace[j][2].out = NotEnvelope /\ Len(lists[j]) = 1

\* C20: when the coercion of the finish observation of step k fails, the
\* finish record is already in the history (k+1 records, the last one named
\* "finish") and there is no Final Output: call raises, acall returns that
\* history with the error description.
C20_FinishRecordedBeforeCoercion ==
    \A i \in Inv :
        (Ended(i) /\ Len(trace[i]) > 0 /\ CoercionFailed(trace[i][Len(trace[i])])) =>
            LET k == Len(trace[i]) - 1 IN
            /\ Len(lists[i]) = k + 1
            /\ lists[i][k + 1] = [step |-> k, action |-> "finish",
                                  observation |-> trace[i][k + 1].res]
            /\ last_output[i] = NoneVal
            /\ mode[i] = "call" => ret[i].kind = "raise"
            /\ mode[i] = "acall" =>
                  /\ ret[i].kind = "return"
                  /\ lists[ret[i].hist] = lists[i]
                  /\ ret[i].second = StrVal(error_msg(k, exc[i]))

C20_Witness ==
    \E i, j \in Inv :
        /\ mode[i] = "call" /\ pc[i] = "raised" /\ Len(trace[i]) = 2
        /\ CoercionFailed(trace[i][2]) /\ Len(lists[i]) = 2
        /\ mode[j] = "acall" /\ pc[j] = "done" /\ CoercionFailed(trace[j][Len(trace[j])])
        /\ lists[ret[j].hist][Len(trace[j])].action = "finish"

====
